---- MODULE Spec2Model ----
(***************************************************************************)
(* Student Management System (src/main.py): the record store, its JSON     *)
(* persistence with timestamped backups, and the interactive menu loop.    *)
(*                                                                         *)
(* Text is a sequence of character codes (ASCII).  A Python float is kept  *)
(* as an integer number of hundredths (3.5 is 350); the inputs of the      *)
(* model have at most two decimals, and every threshold the program        *)
(* compares a float with (0.0, 2.0, 3.0, 3.5, 4.0) is exact in both.       *)
(***************************************************************************)
EXTENDS Integers, Sequences, FiniteSets, TLC

\* ------------------------------------------------------------- bounds
\* save_students() is entered at most MaxSaves times in a behaviour.
MaxSaves == 2

\* ------------------------------------------------------------- text
\* input() at end of input raises EOFError: this value stands for that outcome.
EOF == <<-1>>

IsSpace(c) == c = 32 \/ c = 9
IsAlpha(c) == (c >= 65 /\ c <= 90) \/ (c >= 97 /\ c <= 122)
IsDigit(c) == c >= 48 /\ c <= 57

\* str.lower() on one character
LowerChar(c) == IF c >= 65 /\ c <= 90 THEN c + 32 ELSE c
Lower(s) == [i \in 1..Len(s) |-> LowerChar(s[i])]

RECURSIVE LStrip(_)
LStrip(s) == IF s # <<>> /\ IsSpace(Head(s)) THEN LStrip(Tail(s)) ELSE s
RECURSIVE RStrip(_)
RStrip(s) == IF s # <<>> /\ IsSpace(s[Len(s)]) THEN RStrip(SubSeq(s, 1, Len(s) - 1)) ELSE s
\* str.strip()
Strip(s) == RStrip(LStrip(s))

\* Python's < on str: lexicographic by code point
RECURSIVE StrLess(_, _)
StrLess(a, b) ==
    IF b = <<>> THEN FALSE
    ELSE IF a = <<>> THEN TRUE
    ELSE IF Head(a) # Head(b) THEN Head(a) < Head(b)
    ELSE StrLess(Tail(a), Tail(b))

\* `x in y` on str: x is a substring of y
Contains(x, y) ==
    \E i \in 1..(Len(y) + 1) :
        i + Len(x) - 1 <= Len(y) /\ SubSeq(y, i, i + Len(x) - 1) = x

RECURSIVE DigitsVal(_, _)
DigitsVal(s, acc) == IF s = <<>> THEN acc ELSE DigitsVal(Tail(s), acc * 10 + (Head(s) - 48))
AllDigits(s) == s # <<>> /\ \A i \in 1..Len(s) : IsDigit(s[i])

\* int(text): surrounding blanks and one sign are accepted; anything else
\* raises ValueError (ok = FALSE).
ParseInt(s) ==
    LET t == Strip(s)
        neg == t # <<>> /\ Head(t) = 45
        d == IF t # <<>> /\ (Head(t) = 45 \/ Head(t) = 43) THEN Tail(t) ELSE t
    IN  IF AllDigits(d)
        THEN [ok |-> TRUE, val |-> IF neg THEN 0 - DigitsVal(d, 0) ELSE DigitsVal(d, 0)]
        ELSE [ok |-> FALSE, val |-> 0]

DotAt(s) == IF \E i \in 1..Len(s) : s[i] = 46
            THEN CHOOSE i \in 1..Len(s) : s[i] = 46 /\ \A j \in 1..(i - 1) : s[j] # 46
            ELSE 0

\* float(text), in hundredths: digits with at most one "." and at most two
\* digits after it, with an optional sign; anything else raises ValueError
\* (ok = FALSE).
ParseFloat(s) ==
    LET t == Strip(s)
        neg == t # <<>> /\ Head(t) = 45
        d == IF t # <<>> /\ (Head(t) = 45 \/ Head(t) = 43) THEN Tail(t) ELSE t
        k == DotAt(d)
        whole == IF k = 0 THEN d ELSE SubSeq(d, 1, k - 1)
        frac == IF k = 0 THEN <<>> ELSE SubSeq(d, k + 1, Len(d))
        fv == IF Len(frac) = 1 THEN 10 * DigitsVal(frac, 0) ELSE DigitsVal(frac, 0)
        mag == DigitsVal(whole, 0) * 100 + fv
    IN  IF /\ whole = <<>> \/ AllDigits(whole)
           /\ frac = <<>> \/ (AllDigits(frac) /\ Len(frac) <= 2)
           /\ whole # <<>> \/ frac # <<>>
        THEN [ok |-> TRUE, val |-> IF neg THEN 0 - mag ELSE mag]
        ELSE [ok |-> FALSE, val |-> 0]

RECURSIVE IntDigits(_)
IntDigits(n) == IF n < 10 THEN <<48 + n>> ELSE Append(IntDigits(n \div 10), 48 + (n % 10))
\* json's text of an int
IntRepr(n) == IF n < 0 THEN <<45>> \o IntDigits(0 - n) ELSE IntDigits(n)
\* json's text of a float (float.__repr__): always with a fraction part
FloatRepr(h) ==
    LET m == IF h < 0 THEN 0 - h ELSE h
        f == m % 100
        fr == IF f % 10 = 0 THEN <<48 + (f \div 10)>> ELSE <<48 + (f \div 10), 48 + (f % 10)>>
    IN  (IF h < 0 THEN <<45>> ELSE <<>>) \o IntDigits(m \div 100) \o <<46>> \o fr
\* json's text of a str of letters and blanks: the text in double quotes
StrRepr(s) == <<34>> \o s \o <<34>>
StrUnrepr(t) == SubSeq(t, 2, Len(t) - 1)

\* ------------------------------------------------------------- records
Student(roll_number, name, age, cgpa) ==
    [roll_number |-> roll_number, name |-> name, age |-> age, cgpa |-> cgpa]

\* bool(name.strip()) and all(c.isalpha() or c.isspace() for c in name)
validate_name(name) ==
    Strip(name) # <<>> /\ \A i \in 1..Len(name) : IsAlpha(name[i]) \/ IsSpace(name[i])

\* a check of the sign alone
validate_roll_number_any(studs, roll_number) == roll_number > 0

\* roll_number > 0 and no stored record has it
validate_roll_number(studs, roll_number) ==
    roll_number > 0 /\ ~(\E i \in 1..Len(studs) : studs[i].roll_number = roll_number)

\* a range check that leaves the limits out
validate_age_exclusive(age) == 5 < age /\ age < 120

\* 5 <= age <= 120
validate_age(age) == 5 <= age /\ age <= 120

\* 0.0 <= cgpa <= 4.0
validate_cgpa(cgpa) == 0 <= cgpa /\ cgpa <= 400

\* ------------------------------------------------------------- files
\* A file is absent, holds a complete JSON array (body: one object per record,
\* each the sequence of its <<key, value text>> pairs in dict order), or holds
\* the partial text an interrupted write left (json.load fails on it).
NoFile == [kind |-> "absent", body |-> <<>>]
PartialFile == [kind |-> "partial", body |-> <<>>]
JsonFile(body) == [kind |-> "json", body |-> body]

DumpRecord(r) ==
    << <<"roll_number", IntRepr(r.roll_number)>>,
       <<"name", StrRepr(r.name)>>,
       <<"age", IntRepr(r.age)>>,
       <<"cgpa", FloatRepr(r.cgpa)>> >>

\* json.dump(self.students, file, indent=4) without its last record
JsonDumpDropLast(studs) == [i \in 1..(Len(studs) - 1) |-> DumpRecord(studs[i])]

\* json.dump(self.students, file, indent=4)
JsonDump(studs) == [i \in 1..Len(studs) |-> DumpRecord(studs[i])]

Lookup(obj, key) == obj[CHOOSE i \in 1..Len(obj) : obj[i][1] = key][2]

\* A JSON number with a fraction part loads as a float (hundredths), one
\* without as an int.
JsonInt(t) == ParseInt(t).val
JsonFloat(t) == IF DotAt(t) # 0 THEN ParseFloat(t).val ELSE 100 * ParseInt(t).val

LoadRecord(obj) ==
    Student(JsonInt(Lookup(obj, "roll_number")), StrUnrepr(Lookup(obj, "name")),
            JsonInt(Lookup(obj, "age")), JsonFloat(Lookup(obj, "cgpa")))

\* json.load(file)
JsonLoad(body) == [i \in 1..Len(body) |-> LoadRecord(body[i])]

\* load_students(): the records of the primary file; [] when the file is
\* absent, and [] with the error reported when reading or parsing fails.
load_students(file) ==
    IF file.kind = "absent" THEN [students |-> <<>>, error |-> FALSE]
    ELSE IF file.kind = "json"
    THEN [students |-> JsonLoad(file.body), error |-> FALSE]
    ELSE [students |-> <<>>, error |-> TRUE]

\* ------------------------------------------------------------- sort
Reverse(s) == [i \in 1..Len(s) |-> s[Len(s) + 1 - i]]

\* the sort keys of sort_students, by menu choice: x < y on the keys
KeyLess(choice, x, y) ==
    CASE choice = 1 -> x.roll_number < y.roll_number
      [] choice = 2 -> StrLess(Lower(x.name), Lower(y.name))
      [] choice = 3 -> x.age < y.age
      [] OTHER -> x.cgpa < y.cgpa

RECURSIVE InsertSorted(_, _, _)
InsertSorted(t, x, choice) ==
    IF t = <<>> THEN <<x>>
    ELSE IF KeyLess(choice, x, Head(t)) THEN <<x>> \o t
    ELSE <<Head(t)>> \o InsertSorted(Tail(t), x, choice)

\* a stable ascending sort: a later element goes after its equals
RECURSIVE StableSort(_, _)
StableSort(s, choice) ==
    IF s = <<>> THEN <<>>
    ELSE InsertSorted(StableSort(SubSeq(s, 1, Len(s) - 1), choice), s[Len(s)], choice)

\* a descending sort that reverses the ascending result (equal keys swap)
ListSortReverseAfter(s, choice, reverse) ==
    IF reverse THEN Reverse(StableSort(s, choice)) ELSE StableSort(s, choice)

\* list.sort(key=..., reverse=...): with reverse the list is reversed, sorted
\* ascending and reversed again, which keeps equal keys in their order
ListSort(s, choice, reverse) ==
    IF reverse THEN Reverse(StableSort(Reverse(s), choice)) ELSE StableSort(s, choice)

\* ------------------------------------------------------------- statistics
Inc(g, label) == [g EXCEPT ![label] = @ + 1]

\* the age loop with three separate ifs, the else belonging to the last
AgeStepIfs(g, age) ==
    LET g1 == IF age < 18 THEN Inc(g, "<18") ELSE g
        g2 == IF 18 <= age /\ age <= 22 THEN Inc(g1, "18-22") ELSE g1
    IN  IF 23 <= age /\ age <= 25 THEN Inc(g2, "23-25") ELSE Inc(g2, ">25")

\* one pass of the age loop (if / elif / elif / else)
AgeStep(g, age) ==
    IF age < 18 THEN Inc(g, "<18")
    ELSE IF 18 <= age /\ age <= 22 THEN Inc(g, "18-22")
    ELSE IF 23 <= age /\ age <= 25 THEN Inc(g, "23-25")
    ELSE Inc(g, ">25")

\* one pass of the CGPA loop (if / elif / elif / else)
CgpaStep(g, cgpa) ==
    IF cgpa < 200 THEN Inc(g, "<2.0")
    ELSE IF 200 <= cgpa /\ cgpa < 300 THEN Inc(g, "2.0-2.9")
    ELSE IF 300 <= cgpa /\ cgpa < 350 THEN Inc(g, "3.0-3.5")
    ELSE Inc(g, ">3.5")

RECURSIVE CountAges(_, _)
CountAges(studs, g) ==
    IF studs = <<>> THEN g ELSE CountAges(Tail(studs), AgeStep(g, Head(studs).age))

RECURSIVE CountCgpas(_, _)
CountCgpas(studs, g) ==
    IF studs = <<>> THEN g ELSE CountCgpas(Tail(studs), CgpaStep(g, Head(studs).cgpa))

RECURSIVE SumOf(_, _)
SumOf(studs, field) ==
    IF studs = <<>> THEN 0 ELSE Head(studs)[field] + SumOf(Tail(studs), field)

NoStatistics == [shown |-> FALSE]

\* what show_statistics computes for a non-empty collection
Statistics(studs) ==
    [shown |-> TRUE,
     total |-> Len(studs),
     age_sum |-> SumOf(studs, "age"),
     cgpa_sum |-> SumOf(studs, "cgpa"),
     age_groups |-> CountAges(studs, [l \in {"<18", "18-22", "23-25", ">25"} |-> 0]),
     cgpa_groups |-> CountCgpas(studs, [l \in {"<2.0", "2.0-2.9", "3.0-3.5", ">3.5"} |-> 0])]

\* ------------------------------------------------------------- search
\* for student in self.students: if student['roll_number'] == roll: return student
RollIndex(studs, roll) ==
    IF \E i \in 1..Len(studs) : studs[i].roll_number = roll
    THEN CHOOSE i \in 1..Len(studs) :
            studs[i].roll_number = roll /\ \A j \in 1..(i - 1) : studs[j].roll_number # roll
    ELSE 0

Found(i) == [idx |-> i, exc |-> FALSE, msg |-> "found"]
NotFound(m) == [idx |-> 0, exc |-> FALSE, msg |-> m]
Raised == [idx |-> 0, exc |-> TRUE, msg |-> "raised"]

\* matches = [...]; if matches: view_all_students(matches), whose closing
\* input() may raise; return matches[0] if len(matches) == 1 else None
Matches(m, pause, none) ==
    IF m = {} THEN NotFound(none)
    ELSE IF pause = EOF THEN Raised
    ELSE IF Cardinality(m) = 1 THEN Found(CHOOSE i \in m : TRUE)
    ELSE NotFound("several")

\* search_student(): si holds what the operator types at its prompts (choice,
\* a, b, and pause for view_all_students' "Press Enter").  idx is the position
\* of the record returned (0 for None); exc tells that an exception other than
\* ValueError left the function.
search_student(studs, si) ==
    IF studs = <<>> THEN NotFound("no_students")
    ELSE IF si.choice = EOF THEN Raised
    ELSE IF ~ParseInt(si.choice).ok THEN NotFound("valid_numbers")
    ELSE LET choice == ParseInt(si.choice).val IN
      CASE choice = 1 ->
             IF si.a = EOF THEN Raised
             ELSE IF ~ParseInt(si.a).ok THEN NotFound("valid_numbers")
             ELSE IF RollIndex(studs, ParseInt(si.a).val) # 0
                  THEN Found(RollIndex(studs, ParseInt(si.a).val))
                  ELSE NotFound("no_roll")
        [] choice = 2 ->
             IF si.a = EOF THEN Raised
             ELSE Matches({i \in 1..Len(studs) : Contains(Lower(si.a), Lower(studs[i].name))},
                          si.pause, "no_match")
        [] choice = 3 ->
             IF si.a = EOF THEN Raised
             ELSE IF ~ParseInt(si.a).ok THEN NotFound("valid_numbers")
             ELSE IF si.b = EOF THEN Raised
             ELSE IF ~ParseInt(si.b).ok THEN NotFound("valid_numbers")
             ELSE Matches({i \in 1..Len(studs) :
                              ParseInt(si.a).val <= studs[i].age
                              /\ studs[i].age <= ParseInt(si.b).val},
                          si.pause, "no_age")
        [] choice = 4 ->
             IF si.a = EOF THEN Raised
             ELSE IF ~ParseFloat(si.a).ok THEN NotFound("valid_numbers")
             ELSE IF si.b = EOF THEN Raised
             ELSE IF ~ParseFloat(si.b).ok THEN NotFound("valid_numbers")
             ELSE Matches({i \in 1..Len(studs) :
                              ParseFloat(si.a).val <= studs[i].cgpa
                              /\ studs[i].cgpa <= ParseFloat(si.b).val},
                          si.pause, "no_cgpa")
        [] choice = 5 -> NotFound("back")
        [] OTHER -> NotFound("invalid_choice")

\* a removal that compares names only: the first record named like x goes
RemoveFirstSameName(s, x) ==
    LET i == CHOOSE k \in 1..Len(s) :
                s[k].name = x.name /\ \A j \in 1..(k - 1) : s[j].name # x.name
    IN  SubSeq(s, 1, i - 1) \o SubSeq(s, i + 1, Len(s))

\* list.remove(x): the first element equal to x goes
RemoveFirst(s, x) ==
    LET i == CHOOSE k \in 1..Len(s) : s[k] = x /\ \A j \in 1..(k - 1) : s[j] # x
    IN  SubSeq(s, 1, i - 1) \o SubSeq(s, i + 1, Len(s))

\* ------------------------------------------------------------- inputs
\* What the operator may type at each prompt (EOF: the input has ended).
Txt(n) == IntRepr(n)
MenuInputs == {Txt(n) : n \in 0..9} \cup {<<32, 48>>, EOF}
NameInputs == {<<32, 97>>, <<97, 49>>, EOF}
RollInputs == {Txt(0), Txt(1), Txt(2), <<120>>, EOF}
AgeInputs == {Txt(4), Txt(20), <<120>>, EOF}
CgpaInputs == {<<51, 46, 53>>, <<52, 46, 48, 49>>, <<120>>, EOF}
\* The new values typed in update_student: other values than add_student's, so
\* that an accepted update changes the record.
NewNameInputs == {<<66>>, <<66, 50>>, EOF}
NewAgeInputs == {Txt(17), Txt(121), <<120>>, EOF}
NewCgpaInputs == {Txt(2), <<45, 49>>, <<120>>, EOF}
ChoiceInputs == {Txt(n) : n \in 1..6} \cup {<<120>>, EOF}
PauseInputs == {<<>>, EOF}
ConfirmInputs == {<<121>>, <<89>>, <<110>>, EOF}

SI(choice, a, b, pause) == [choice |-> choice, a |-> a, b |-> b, pause |-> pause]
SearchInputs ==
    {SI(Txt(1), a, <<>>, <<>>) : a \in RollInputs}
    \cup {SI(Txt(2), a, <<>>, p) : a \in {<<>>, <<98>>}, p \in PauseInputs}
    \cup {SI(Txt(3), Txt(17), b, <<>>) : b \in {Txt(17), Txt(20), <<120>>, EOF}}
    \cup {SI(Txt(4), a, <<51, 46, 53>>, <<>>) : a \in {Txt(2), <<51, 46, 53>>, <<120>>, EOF}}
    \cup {SI(c, <<>>, <<>>, <<>>) : c \in {Txt(5), Txt(6), <<120>>, EOF}}
\* What is typed into the search that update_student and delete_student
\* start with: a roll number, or a part of a name.
SelectInputs ==
    {SI(Txt(1), a, <<>>, <<>>) : a \in {Txt(1), Txt(2), <<120>>, EOF}}
    \cup {SI(Txt(2), <<97>>, <<>>, <<>>)}

\* ------------------------------------------------------------- state
VARIABLES
    students,   \* self.students
    primary,    \* the file students.json
    backups,    \* the files backups/students_backup_<second>.json, oldest first
    stamped,    \* a backup file named by the current second exists (the newest)
    pc,         \* where the process is: the prompt it waits at, or how it ended
    cmd,        \* the handler that is running or has just returned
    sel,        \* the record search_student returned to update / delete (its position)
    loc,        \* the handler's locals: add_student's name, roll_number, age and
                \* cgpa; update_student's choice and new value, once it is read
    out,        \* the messages printed since the menu was last shown
    stats,      \* what show_statistics computed, while it is on the screen
    before,     \* history: self.students when the handler was entered
    nsaves,     \* history: how often save_students was entered
    savesBefore,      \* history: nsaves when the handler was entered
    lastSaveComplete  \* history: this process has saved, and its last save_students
                      \* that ended wrote both files

vars == <<students, primary, backups, stamped, pc, cmd, sel, loc, out, stats,
          before, nsaves, savesBefore, lastSaveComplete>>

NoLocals == [name |-> <<>>, roll_number |-> 0, age |-> 0, cgpa |-> 0, choice |-> 0]

\* Collections an earlier run of the program left in students.json: two
\* records that agree in name, age and CGPA, and two that differ in each.
LoadedCollections ==
    { << Student(1, <<97>>, 20, 350), Student(2, <<97>>, 20, 350) >>,
      << Student(2, <<66>>, 17, 200), Student(1, <<97>>, 20, 350) >> }

\* The state after construction, when run() first shows the menu.
Fresh(studs) ==
    /\ students = studs
    /\ pc = "menu"
    /\ cmd = "none"
    /\ sel = 0
    /\ loc = NoLocals
    /\ out = {}
    /\ stats = NoStatistics
    /\ before = studs
    /\ savesBefore = nsaves
    /\ lastSaveComplete = FALSE

\* __init__ found students.json holding studs, which an earlier run saved
\* and backed up in an earlier second.
Loaded(studs) ==
    /\ Fresh(studs)
    /\ primary = JsonFile(JsonDump(studs))
    /\ backups = <<JsonFile(JsonDump(studs))>>
    /\ stamped = FALSE

\* A first start in an empty directory (no students.json; __init__ creates
\* the backup directory), or a start on the files of an earlier run.
Init ==
    /\ nsaves = 0
    /\ \/ Fresh(<<>>) /\ primary = NoFile /\ backups = <<>> /\ stamped = FALSE
       \/ \E studs \in LoadedCollections : Loaded(studs)

Files == <<primary, backups, stamped>>
History == <<nsaves, savesBefore, lastSaveComplete>>

\* run(): the handler a menu choice selects
Dispatch(choice) ==
    CASE choice = <<48>> -> "exit"
      [] choice = <<49>> -> "add"
      [] choice = <<50>> -> "view"
      [] choice = <<51>> -> "search"
      [] choice = <<52>> -> "update"
      [] choice = <<53>> -> "delete"
      [] choice = <<54>> -> "sort"
      [] choice = <<55>> -> "export"
      [] choice = <<56>> -> "statistics"
      [] OTHER -> "invalid"

\* The operator types a choice that selects handler h.
Chosen(h) ==
    /\ pc = "menu"
    /\ \E choice \in MenuInputs \ {EOF} : Dispatch(choice) = h

\* Handler h goes on to prompt p (or to the step p) with msgs on the screen.
Goto(p, h, msgs, s) == pc' = p /\ cmd' = h /\ out' = msgs /\ sel' = s

\* Handler h returns to run() with msgs on the screen.
Return(h, msgs) == Goto("done", h, msgs, 0)

\* An exception leaves the handler and reaches run()'s `except Exception`: it
\* is reported and the loop waits for Enter.
ToExcept == Goto("except_pause", "none", {"loop_error"}, 0)

\* save_students() is entered.
EnterSave ==
    /\ pc' = "save_primary"
    /\ nsaves' = nsaves + 1
    /\ UNCHANGED <<savesBefore, lastSaveComplete>>

\* ------------------------------------------------------------- run loop
\* The handler has returned: the loop calls show_menu(), which clears the
\* screen, and waits for the next choice.  What the last command left behind
\* (its messages, its locals) is gone.
ShowMenu ==
    /\ pc = "done"
    /\ Goto("menu", "none", {}, 0)
    /\ loc' = NoLocals
    /\ stats' = NoStatistics
    /\ before' = students
    /\ savesBefore' = nsaves
    /\ UNCHANGED <<students, Files, nsaves, lastSaveComplete>>

\* input() at the menu prompt raises EOFError
MenuEOF ==
    /\ pc = "menu"
    /\ ToExcept
    /\ UNCHANGED <<students, Files, loc, stats, before, History>>

\* choice '0': the loop breaks
Exit ==
    /\ Chosen("exit")
    /\ Goto("exited", "exit", {"goodbye"}, 0)
    /\ UNCHANGED <<students, Files, loc, stats, before, History>>

\* any other text: reported, then "Press Enter to continue..."
InvalidChoice ==
    /\ Chosen("invalid")
    /\ Goto("pause", "invalid", {"invalid_menu_choice"}, 0)
    /\ UNCHANGED <<students, Files, loc, stats, before, History>>

\* input("Press Enter ...") inside run()'s try: view_all_students', the one
\* after a search, the one after an invalid choice
Pause ==
    /\ pc = "pause"
    /\ \E inp \in PauseInputs :
        IF inp = EOF THEN ToExcept ELSE Goto("done", cmd, out, sel)
    /\ UNCHANGED <<students, Files, loc, stats, before, History>>

\* input("Press Enter to continue...") inside the except clause: an EOFError
\* here is caught by nothing and ends run()
ExceptPause ==
    /\ pc = "except_pause"
    /\ \E inp \in PauseInputs :
        IF inp = EOF THEN Goto("aborted", cmd, out \cup {"traceback"}, sel)
        ELSE Goto("done", cmd, out, sel)
    /\ UNCHANGED <<students, Files, loc, stats, before, History>>

\* ------------------------------------------------------------- add_student
AddStudent ==
    /\ Chosen("add")
    /\ nsaves < MaxSaves
    /\ Goto("add_name", "add", {}, 0)
    /\ UNCHANGED <<students, Files, loc, stats, before, History>>

\* An exception inside add_student's try (EOFError at a prompt) is reported by
\* the handler itself, which returns.
AddRaised == Return("add", {"error_occurred"}) /\ UNCHANGED loc

AddName ==
    /\ pc = "add_name"
    /\ \E inp \in NameInputs :
        IF inp = EOF THEN AddRaised
        ELSE /\ loc' = [loc EXCEPT !.name = Strip(inp)]
             /\ IF validate_name(Strip(inp))
                THEN Goto("add_roll", "add", {}, 0)
                ELSE Goto("add_name", "add", {"invalid_name"}, 0)
    /\ UNCHANGED <<students, Files, stats, before, History>>

AddRoll ==
    /\ pc = "add_roll"
    /\ \E inp \in RollInputs :
        IF inp = EOF THEN AddRaised
        ELSE IF ~ParseInt(inp).ok
        THEN Goto("add_roll", "add", {"valid_number"}, 0) /\ UNCHANGED loc
        ELSE /\ loc' = [loc EXCEPT !.roll_number = ParseInt(inp).val]
             /\ IF validate_roll_number(students, ParseInt(inp).val)
                THEN Goto("add_age", "add", {}, 0)
                ELSE Goto("add_roll", "add", {"invalid_roll"}, 0)
    /\ UNCHANGED <<students, Files, stats, before, History>>

\* the age prompt, the operator typing one of inputs
AddAgeFrom(inputs) ==
    /\ pc = "add_age"
    /\ \E inp \in inputs :
        IF inp = EOF THEN AddRaised
        ELSE IF ~ParseInt(inp).ok
        THEN Goto("add_age", "add", {"valid_number"}, 0) /\ UNCHANGED loc
        ELSE /\ loc' = [loc EXCEPT !.age = ParseInt(inp).val]
             /\ IF validate_age(ParseInt(inp).val)
                THEN Goto("add_cgpa", "add", {}, 0)
                ELSE Goto("add_age", "add", {"invalid_age"}, 0)
    /\ UNCHANGED <<students, Files, stats, before, History>>

AddAge == AddAgeFrom(AgeInputs)

\* the CGPA prompt, the operator typing one of inputs; an accepted value
\* completes the record, which is appended and saved
AddCgpaFrom(inputs) ==
    /\ pc = "add_cgpa"
    /\ \E inp \in inputs :
        IF inp = EOF
        THEN AddRaised /\ UNCHANGED <<students, History>>
        ELSE IF ~ParseFloat(inp).ok
        THEN /\ Goto("add_cgpa", "add", {"valid_number"}, 0)
             /\ UNCHANGED <<students, loc, History>>
        ELSE /\ loc' = [loc EXCEPT !.cgpa = ParseFloat(inp).val]
             /\ IF validate_cgpa(ParseFloat(inp).val)
                THEN /\ students' = Append(students,
                            Student(loc.roll_number, loc.name, loc.age, ParseFloat(inp).val))
                     /\ out' = {}
                     /\ EnterSave
                     /\ UNCHANGED <<cmd, sel>>
                ELSE /\ Goto("add_cgpa", "add", {"invalid_cgpa"}, 0)
                     /\ UNCHANGED <<students, History>>
    /\ UNCHANGED <<Files, stats, before>>

AddCgpa == AddCgpaFrom(CgpaInputs)

\* ------------------------------------------------------------- view, search
\* choice '2': the table (or "No students found."), then "Press Enter"
ViewAllStudents ==
    /\ Chosen("view")
    /\ Goto("pause", "view", IF students = <<>> THEN {"no_students"} ELSE {"table"}, 0)
    /\ UNCHANGED <<students, Files, loc, stats, before, History>>

\* choice '3': search_student(), and a pause when it found a record among several
SearchStudent ==
    /\ Chosen("search")
    /\ \E si \in SearchInputs :
        LET r == search_student(students, si) IN
        IF r.exc THEN ToExcept
        ELSE IF r.idx # 0 /\ Len(students) > 1
        THEN Goto("pause", "search", {r.msg}, 0)
        ELSE Return("search", {r.msg})
    /\ UNCHANGED <<students, Files, loc, stats, before, History>>

\* ------------------------------------------------------------- update_student
\* choice '4', up to the field menu: student = self.search_student()
UpdateStudent ==
    /\ Chosen("update")
    /\ nsaves < MaxSaves
    /\ \E si \in SelectInputs :
        LET r == search_student(students, si) IN
        IF r.exc THEN ToExcept
        ELSE IF r.idx # 0 THEN Goto("update_field", "update", {r.msg}, r.idx)
        ELSE Return("update", {r.msg})
    /\ UNCHANGED <<students, Files, loc, stats, before, History>>

FieldOf(choice) == CASE choice = 1 -> "name" [] choice = 2 -> "age" [] OTHER -> "cgpa"

NotUpdated(msg) == Return("update", {msg}) /\ UNCHANGED <<students, History>>

\* choice = int(input(...)) and new_<field> = ...(input("New ...: ")) are read
NewValueRead(choice, value) ==
    loc' = [loc EXCEPT !.choice = choice, ![FieldOf(choice)] = value]

\* the field is assigned and saved whatever the validator said
SetFieldUnvalidated(choice, value, valid) ==
    /\ NewValueRead(choice, value)
    /\ students' = [students EXCEPT ![sel] = [@ EXCEPT ![FieldOf(choice)] = value]]
    /\ out' = {}
    /\ EnterSave
    /\ UNCHANGED <<cmd, sel>>

\* if self.validate_<field>(value): student[field] = value; self.save_students()
\* else: the value is reported invalid
SetField(choice, value, valid) ==
    /\ NewValueRead(choice, value)
    /\ IF valid
       THEN /\ students' = [students EXCEPT ![sel] = [@ EXCEPT ![FieldOf(choice)] = value]]
            /\ out' = {}
            /\ EnterSave
            /\ UNCHANGED <<cmd, sel>>
       ELSE NotUpdated(CASE choice = 1 -> "invalid_name" [] choice = 2 -> "invalid_age"
                         [] OTHER -> "invalid_cgpa")

\* the field menu and the new value, the operator typing one of names, ages
\* or cgpas as the new value
UpdateFieldFrom(names, ages, cgpas) ==
    /\ pc = "update_field"
    /\ \E fc \in ChoiceInputs, inp \in names \cup ages \cup cgpas :
        IF fc = EOF THEN ToExcept /\ UNCHANGED <<students, loc, History>>
        ELSE IF ~ParseInt(fc).ok THEN NotUpdated("valid_input") /\ UNCHANGED loc
        ELSE LET choice == ParseInt(fc).val IN
          IF choice \in {1, 2, 3} /\ inp = EOF
          THEN ToExcept /\ UNCHANGED <<students, loc, History>>
          ELSE CASE choice = 1 /\ inp \in names ->
                      SetField(1, Strip(inp), validate_name(Strip(inp)))
                 [] choice = 2 /\ inp \in ages ->
                      IF ~ParseInt(inp).ok THEN NotUpdated("valid_input") /\ UNCHANGED loc
                      ELSE SetField(2, ParseInt(inp).val, validate_age(ParseInt(inp).val))
                 [] choice = 3 /\ inp \in cgpas ->
                      IF ~ParseFloat(inp).ok THEN NotUpdated("valid_input") /\ UNCHANGED loc
                      ELSE SetField(3, ParseFloat(inp).val, validate_cgpa(ParseFloat(inp).val))
                 [] choice = 4 -> NotUpdated("update_cancelled") /\ UNCHANGED loc
                 [] choice \notin {1, 2, 3, 4} -> NotUpdated("invalid_choice") /\ UNCHANGED loc
                 [] OTHER -> FALSE
    /\ UNCHANGED <<Files, stats, before>>

UpdateField == UpdateFieldFrom(NewNameInputs, NewAgeInputs, NewCgpaInputs)

\* ------------------------------------------------------------- delete_student
\* choice '5', up to the confirmation: student = self.search_student()
DeleteStudent ==
    /\ Chosen("delete")
    /\ nsaves < MaxSaves
    /\ \E si \in SelectInputs :
        LET r == search_student(students, si) IN
        IF r.exc THEN ToExcept
        ELSE IF r.idx # 0 THEN Goto("delete_confirm", "delete", {r.msg}, r.idx)
        ELSE Return("delete", {r.msg})
    /\ UNCHANGED <<students, Files, loc, stats, before, History>>

\* "Are you sure ... (y/n)": 'y' in either case removes the record and saves
DeleteConfirm ==
    /\ pc = "delete_confirm"
    /\ \E inp \in ConfirmInputs :
        IF inp = EOF THEN ToExcept /\ UNCHANGED <<students, History>>
        ELSE IF Lower(inp) = <<121>>
        THEN /\ students' = RemoveFirst(students, students[sel])
             /\ out' = {}
             /\ EnterSave
             /\ UNCHANGED <<cmd, sel>>
        ELSE Return("delete", {"deletion_cancelled"}) /\ UNCHANGED <<students, History>>
    /\ UNCHANGED <<Files, loc, stats, before>>

\* ------------------------------------------------------------- sort_students
SortedMessage(choice) ==
    CASE choice = 1 -> "sorted_by_roll" [] choice = 2 -> "sorted_by_name"
      [] choice = 3 -> "sorted_by_age" [] OTHER -> "sorted_by_cgpa"

\* choice '6': the sort menu; 1-4 sort in place, report it and save
SortStudents ==
    /\ Chosen("sort")
    /\ nsaves < MaxSaves
    /\ \E inp \in ChoiceInputs :
        IF students = <<>>
        THEN Return("sort", {"no_students"}) /\ UNCHANGED <<students, History>>
        ELSE IF inp = EOF THEN ToExcept /\ UNCHANGED <<students, History>>
        ELSE IF ~ParseInt(inp).ok
        THEN Return("sort", {"valid_number"}) /\ UNCHANGED <<students, History>>
        ELSE LET choice == ParseInt(inp).val IN
          IF choice \in {1, 2, 3, 4}
          THEN /\ students' = ListSort(students, choice, choice = 4)
               /\ cmd' = "sort"
               /\ sel' = 0
               /\ out' = {SortedMessage(choice)}
               /\ EnterSave
          ELSE /\ Return("sort", {IF choice = 5 THEN "sorting_cancelled" ELSE "invalid_choice"})
               /\ UNCHANGED <<students, History>>
    /\ UNCHANGED <<Files, loc, stats, before>>

\* ------------------------------------------------------------- export, statistics
\* choice '7': students_export.csv is written, or the failure is reported.
\* The program never reads that file back, so the model keeps only the report.
ExportToCsv ==
    /\ Chosen("export")
    /\ IF students = <<>>
       THEN Return("export", {"no_students"})
       ELSE \E failed \in BOOLEAN :
               Return("export", {IF failed THEN "export_error" ELSE "exported"})
    /\ UNCHANGED <<students, Files, loc, stats, before, History>>

\* choice '8'
ShowStatistics ==
    /\ Chosen("statistics")
    /\ IF students = <<>>
       THEN Return("statistics", {"no_students"}) /\ stats' = NoStatistics
       ELSE Return("statistics", {"statistics"}) /\ stats' = Statistics(students)
    /\ UNCHANGED <<students, Files, loc, before, History>>

\* ------------------------------------------------------------- save_students
\* What the handler does once save_students() has returned (it returns
\* normally also when it caught a failure): add, update and delete report
\* success; sort shows the table and waits for Enter.
AfterSave(msgs) ==
    CASE cmd = "add" -> pc' = "done" /\ out' = msgs \cup {"added"}
      [] cmd = "update" -> pc' = "done" /\ out' = msgs \cup {"updated"}
      [] cmd = "delete" -> pc' = "done" /\ out' = msgs \cup {"deleted"}
      [] OTHER -> pc' = "pause" /\ out' = msgs \cup {"table"}

\* a primary write that leaves the last record out
WritePrimaryDropLast == primary' = JsonFile(JsonDumpDropLast(students))

\* with open(DATA_FILE, 'w') as file: json.dump(self.students, file, indent=4)
WritePrimary == primary' = JsonFile(JsonDump(students))

\* timestamp = datetime.now().strftime("%Y%m%d_%H%M%S"); the backup file of
\* that name is opened with 'w': created, or truncated when a file of this
\* second exists
OpenBackup(content) ==
    /\ backups' = IF stamped THEN [backups EXCEPT ![Len(backups)] = content]
                  ELSE Append(backups, content)
    /\ stamped' = TRUE

\* json.dump(self.students, backup_file, indent=4)
WriteBackup == OpenBackup(JsonFile(JsonDump(students)))

\* lines 40-41: the primary file is rewritten; an I/O failure (at open: the
\* file is untouched; while writing: it is left partial) is caught and reported
SavePrimary ==
    /\ pc = "save_primary"
    /\ \E failure \in {"none", "open", "write"} :
        CASE failure = "none" ->
                WritePrimary /\ pc' = "save_backup" /\ out' = out /\ UNCHANGED lastSaveComplete
          [] failure = "open" ->
                /\ UNCHANGED primary
                /\ lastSaveComplete' = FALSE
                /\ AfterSave(out \cup {"save_error"})
          [] OTHER ->
                /\ primary' = PartialFile
                /\ lastSaveComplete' = FALSE
                /\ AfterSave(out \cup {"save_error"})
    /\ UNCHANGED <<students, backups, stamped, cmd, sel, loc, stats, before, nsaves, savesBefore>>

\* lines 44-47: the backup file named by the current second is written
SaveBackup ==
    /\ pc = "save_backup"
    /\ \E failure \in {"none", "open", "write"} :
        CASE failure = "none" ->
                WriteBackup /\ lastSaveComplete' = TRUE /\ AfterSave(out)
          [] failure = "open" ->
                /\ UNCHANGED <<backups, stamped>>
                /\ lastSaveComplete' = FALSE
                /\ AfterSave(out \cup {"save_error"})
          [] OTHER ->
                /\ OpenBackup(PartialFile)
                /\ lastSaveComplete' = FALSE
                /\ AfterSave(out \cup {"save_error"})
    /\ UNCHANGED <<students, primary, cmd, sel, loc, stats, before, nsaves, savesBefore>>

\* ------------------------------------------------------------- environment
\* an interrupted primary write that takes the newest backup file with it
InterruptedWriteBothOpen ==
    /\ primary' = PartialFile
    /\ backups' = [i \in DOMAIN backups |-> IF i = Len(backups) THEN PartialFile ELSE backups[i]]
    /\ stamped' = stamped

\* lines 40-41 interrupted: only DATA_FILE is open, truncated by 'w' and
\* partly written; no backup file has been touched yet
InterruptedPrimaryWrite ==
    primary' = PartialFile /\ backups' = backups /\ stamped' = stamped

\* The process dies while json.dump writes the primary file (opened with 'w',
\* so already truncated).
CrashWritingPrimary ==
    /\ pc = "save_primary"
    /\ InterruptedPrimaryWrite
    /\ pc' = "crashed"
    /\ lastSaveComplete' = FALSE
    /\ UNCHANGED <<students, cmd, sel, loc, out, stats, before, nsaves, savesBefore>>

\* The process dies after the primary file is written: before the backup file
\* is opened, or while it is written.
CrashWritingBackup ==
    /\ pc = "save_backup"
    /\ pc' = "crashed"
    /\ \E opened \in BOOLEAN :
        IF opened THEN OpenBackup(PartialFile) ELSE UNCHANGED <<backups, stamped>>
    /\ lastSaveComplete' = FALSE
    /\ UNCHANGED <<students, primary, cmd, sel, loc, out, stats, before, nsaves, savesBefore>>

\* The program is started again: __init__ loads the primary file.
Restart ==
    /\ pc \in {"exited", "aborted", "crashed"}
    /\ LET r == load_students(primary) IN
        /\ students' = r.students
        /\ before' = r.students
        /\ Goto("done", "none", IF r.error THEN {"load_error"} ELSE {}, 0)
    /\ loc' = NoLocals
    /\ stats' = NoStatistics
    /\ lastSaveComplete' = FALSE
    /\ savesBefore' = nsaves
    /\ UNCHANGED <<Files, nsaves>>

\* The wall clock reaches the next second.  The clock is read only by
\* save_students (line 44), to name the backup file: all that a new second
\* changes is that no backup file carries its name yet; a second that passes
\* anywhere between two saves is one that passes at the menu.
Tick ==
    /\ pc = "menu"
    /\ stamped
    /\ stamped' = FALSE
    /\ UNCHANGED <<students, primary, backups, pc, cmd, sel, loc, out, stats, before, History>>

Next ==
    \/ ShowMenu \/ MenuEOF \/ Exit \/ InvalidChoice \/ Pause \/ ExceptPause
    \/ AddStudent \/ AddName \/ AddRoll \/ AddAge \/ AddCgpa
    \/ ViewAllStudents \/ SearchStudent
    \/ UpdateStudent \/ UpdateField
    \/ DeleteStudent \/ DeleteConfirm
    \/ SortStudents \/ ExportToCsv \/ ShowStatistics
    \/ SavePrimary \/ SaveBackup
    \/ CrashWritingPrimary \/ CrashWritingBackup \/ Restart \/ Tick

Spec == Init /\ [][Next]_vars

\* ------------------------------------------------------------- sorting alone
\* Collections of three records whose keys tie and differ in every way: names
\* that are equal up to case, ages and CGPAs that repeat, rolls in any order.
SortKeys == {<<97>>, <<65>>, <<66>>} \X {<<17, 350>>, <<20, 350>>, <<20, 200>>}

SortCollections ==
    { [i \in 1..3 |-> Student(p[i], k[i][1], k[i][2][1], k[i][2][2])] :
        p \in {q \in [1..3 -> 1..3] : \A i, j \in 1..3 : q[i] = q[j] => i = j},
        k \in [1..3 -> SortKeys] }

InitSort ==
    /\ nsaves = 0
    /\ \E studs \in SortCollections : Loaded(studs)

\* one pass of the menu loop in which the operator chooses '6'
NextSort ==
    \/ SortStudents \/ SavePrimary \/ SaveBackup \/ Pause \/ ExceptPause

SpecSort == InitSort /\ [][NextSort]_vars

\* ------------------------------------------------------------- statistics alone
\* Collections of up to two records with an age and a CGPA on either side of
\* every bucket limit.
StatAges == {5, 17, 18, 22, 23, 25, 26, 120}
StatCgpas == {0, 199, 200, 299, 300, 349, 350, 400}

StatCollections ==
    {<<>>}
    \cup {<<Student(1, <<97>>, a, c)>> : a \in StatAges, c \in StatCgpas}
    \cup {<<Student(1, <<97>>, a, c), Student(2, <<66>>, b, d)>> :
            a \in StatAges, c \in StatCgpas, b \in StatAges, d \in StatCgpas}

InitStats ==
    /\ nsaves = 0
    /\ \E studs \in StatCollections : Loaded(studs)

\* the menu loop when the operator only ever chooses '8'
NextStats == ShowStatistics \/ ShowMenu

SpecStats == InitStats /\ [][NextStats]_vars

\* ------------------------------------------------------------- the limits of age and CGPA
\* What is typed at the age and CGPA prompts: the limits and their neighbours.
LimitAges == {Txt(4), Txt(5), Txt(120), Txt(121)}
LimitCgpas ==
    { <<48, 46, 48>>, <<52, 46, 48>>, <<45, 48, 46, 48, 49>>, <<52, 46, 48, 49>> }

AddAgeAtLimits == AddAgeFrom(LimitAges)
AddCgpaAtLimits == AddCgpaFrom(LimitCgpas)
UpdateFieldAtLimits == UpdateFieldFrom({<<66>>}, LimitAges, LimitCgpas)

\* the menu loop when the operator only ever chooses '1' and '4'
NextLimits ==
    \/ ShowMenu \/ ExceptPause
    \/ AddStudent \/ AddName \/ AddRoll \/ AddAgeAtLimits \/ AddCgpaAtLimits
    \/ UpdateStudent \/ UpdateFieldAtLimits
    \/ SavePrimary \/ SaveBackup

SpecLimits == Init /\ [][NextLimits]_vars

\* ============================================================= properties
Rolls(studs) == {studs[i].roll_number : i \in 1..Len(studs)}

NoDuplicateRolls(studs) ==
    \A i, j \in 1..Len(studs) : studs[i].roll_number = studs[j].roll_number => i = j

\* the current handler has changed the collection and entered save_students
Saved == nsaves > savesBefore

\* s without its i-th element
Without(s, i) == SubSeq(s, 1, i - 1) \o SubSeq(s, i + 1, Len(s))

HasBackupOf(studs) ==
    \E i \in 1..Len(backups) : backups[i] = JsonFile(JsonDump(studs))

SuccessMessages == {"added", "updated", "deleted"}

\* C1: no two records of the collection ever share a roll number; an add
\* whose roll number is not positive or is already present is rejected at the
\* prompt and appends nothing, and a roll number that got past the prompt is
\* positive and new; a completed add appends one record with such a roll.
C1_RollNumbersUnique ==
    /\ NoDuplicateRolls(students)
    /\ (pc = "add_roll" /\ "invalid_roll" \in out) =>
          /\ students = before
          /\ ~Saved
          /\ (loc.roll_number <= 0 \/ loc.roll_number \in Rolls(students))
    /\ pc \in {"add_age", "add_cgpa"} =>
          /\ loc.roll_number > 0
          /\ loc.roll_number \notin Rolls(students)
          /\ students = before
    /\ (cmd = "add" /\ Saved) =>
          /\ Len(students) = Len(before) + 1
          /\ SubSeq(students, 1, Len(before)) = before
          /\ students[Len(students)].roll_number > 0
          /\ students[Len(students)].roll_number \notin Rolls(before)

\* an add was rejected because its roll number is the one of a stored record
C1_DuplicateRejected ==
    /\ pc = "add_roll"
    /\ "invalid_roll" \in out
    /\ loc.roll_number \in Rolls(students)
    /\ Len(students) = 2

\* C2: when an add, update, delete or sort has gone through save_students
\* without an I/O failure, loading the primary file yields exactly the
\* collection in memory (same records, same order); and the primary file is
\* written by nothing but the save of an accepted add, update, delete or sort:
\* search, view, export, statistics and every cancelled or rejected command
\* leave it as it is.
C2_PrimaryMirrorsMemory ==
    /\ [](  (/\ pc \in {"done", "pause"}
             /\ cmd \in {"add", "update", "delete", "sort"}
             /\ Saved
             /\ "save_error" \notin out) =>
              /\ ~load_students(primary).error
              /\ primary.kind = "json"
              /\ load_students(primary).students = students )
    /\ [][ primary' # primary =>
              /\ pc = "save_primary"
              /\ cmd \in {"add", "update", "delete", "sort"}
              /\ Saved
              /\ out \subseteq {"sorted_by_roll", "sorted_by_name",
                                "sorted_by_age", "sorted_by_cgpa"} ]_vars

\* an update changed a record and was saved without a failure
C2_UpdateSaved ==
    /\ pc = "done"
    /\ cmd = "update"
    /\ Saved
    /\ "save_error" \notin out
    /\ students # before
    /\ Len(students) = 2

\* C3: every save that succeeds adds one backup file, holding what that save
\* wrote to the primary file, and leaves every earlier backup file as it was.
C3_EverySaveAddsABackup ==
    [][ (pc = "save_backup" /\ lastSaveComplete') =>
            /\ Len(backups') = Len(backups) + 1
            /\ SubSeq(backups', 1, Len(backups)) = backups
            /\ backups'[Len(backups')] = primary' ]_vars

C5_FailedSaveAborts ==
    (pc \in {"done", "pause"} /\ "save_error" \in out) =>
        /\ students = before
        /\ out \cap SuccessMessages = {}

\* C6: a confirmed delete removes the record the search returned and nothing
\* else: the collection is one shorter, the other records keep their order,
\* and the deleted roll number is gone; a delete that was not confirmed, or
\* whose search returned no single record, leaves the collection unchanged.
C6_DeleteRemovesExactlyOne ==
    cmd = "delete" =>
        IF Saved
        THEN /\ sel \in 1..Len(before)
             /\ students = Without(before, sel)
             /\ Len(students) = Len(before) - 1
             /\ before[sel].roll_number \notin Rolls(students)
        ELSE /\ students = before
             /\ out \cap SuccessMessages = {}

\* the first of two records was deleted
C6_FirstOfTwoDeleted ==
    /\ pc = "done"
    /\ cmd = "delete"
    /\ "deleted" \in out
    /\ Len(before) = 2
    /\ sel = 1
    /\ before[1].name = before[2].name

ValidField(field, value) ==
    CASE field = "name" -> validate_name(value)
      [] field = "age" -> validate_age(value)
      [] OTHER -> validate_cgpa(value)

\* C7: an update assigns one field (name, age or cgpa) of the one record the
\* search returned, and only a value that passes the field's validator; a
\* value that is rejected or cannot be parsed, and a cancelled update, leave
\* the collection unchanged and save nothing.  Roll numbers, the size and the
\* order of the collection never change.
C7_UpdateOneValidField ==
    cmd = "update" =>
        /\ Len(students) = Len(before)
        /\ \A i \in 1..Len(before) : students[i].roll_number = before[i].roll_number
        /\ IF Saved
           THEN /\ sel \in 1..Len(before)
                /\ \A i \in 1..Len(before) : i # sel => students[i] = before[i]
                /\ \E field \in {"name", "age", "cgpa"} :
                      /\ students[sel] = [before[sel] EXCEPT ![field] = students[sel][field]]
                      /\ ValidField(field, students[sel][field])
           ELSE students = before
        /\ out \cap {"invalid_name", "invalid_age", "invalid_cgpa", "valid_input",
                     "update_cancelled", "invalid_choice"} # {} => ~Saved

\* the second record's age was updated and nothing else
C7_AgeUpdated ==
    /\ pc = "done"
    /\ cmd = "update"
    /\ "updated" \in out
    /\ sel = 2
    /\ students[2].age # before[2].age
    /\ students[2].age = 17

\* the sort key the operator chose, as the handler reported it
SortChoice ==
    CASE "sorted_by_roll" \in out -> 1
      [] "sorted_by_name" \in out -> 2
      [] "sorted_by_age" \in out -> 3
      [] OTHER -> 4

\* x comes strictly before y in the order of the chosen key
Precedes(choice, x, y) ==
    CASE choice = 1 -> x.roll_number < y.roll_number
      [] choice = 2 -> StrLess(Lower(x.name), Lower(y.name))
      [] choice = 3 -> x.age < y.age
      [] OTHER -> x.cgpa > y.cgpa

\* after is bef rearranged into the order of the key, equal keys in the
\* order they had in bef
IsStableSort(after, bef, choice) ==
    /\ Len(after) = Len(bef)
    /\ \E p \in [1..Len(bef) -> 1..Len(bef)] :
          /\ \A i, j \in 1..Len(bef) : p[i] = p[j] => i = j
          /\ \A i \in 1..Len(bef) : after[i] = bef[p[i]]
          /\ \A i, j \in 1..Len(bef) :
                i < j => /\ ~Precedes(choice, after[j], after[i])
                         /\ (~Precedes(choice, after[i], after[j]) => p[i] < p[j])

\* C8: a sort by roll number, name (case-insensitive), age, or CGPA
\* (descending) leaves a permutation of the collection in the order of the
\* key, records with equal keys in their prior order; after a sort by CGPA no
\* record has a higher CGPA than the first.
C8_SortStablePermutation ==
    (cmd = "sort" /\ Saved) =>
        /\ IsStableSort(students, before, SortChoice)
        /\ SortChoice = 4 => \A i \in 1..Len(before) : students[1].cgpa >= before[i].cgpa

\* a sort by CGPA moved a record and kept two records of equal CGPA
C8_SortedByCgpaWithTie ==
    /\ pc = "pause"
    /\ cmd = "sort"
    /\ "sorted_by_cgpa" \in out
    /\ students # before
    /\ students[1].cgpa = students[2].cgpa
    /\ students[1] = before[2]
    /\ students[2] = before[3]

\* C9: the menu loop has ended only if choice '0' was entered.
C9_OnlyZeroTerminates ==
    pc \in {"exited", "aborted"} => (cmd = "exit" /\ "goodbye" \in out)

Count(studs, InBucket(_)) == Cardinality({i \in 1..Len(studs) : InBucket(studs[i])})

\* C10: the statistics of a non-empty collection count every record in exactly
\* one age bucket and one CGPA bucket: each bucket holds the number of records
\* in its range, and the counts of either distribution sum to the total.
C10_BucketsSumToTotal ==
    stats.shown =>
        LET ag == stats.age_groups
            cg == stats.cgpa_groups
            Under18(r) == r.age < 18
            From18To22(r) == 18 <= r.age /\ r.age <= 22
            From23To25(r) == 23 <= r.age /\ r.age <= 25
            Over25(r) == r.age > 25
            Under2(r) == r.cgpa < 200
            From2(r) == 200 <= r.cgpa /\ r.cgpa < 300
            From3(r) == 300 <= r.cgpa /\ r.cgpa < 350
            From35(r) == r.cgpa >= 350
        IN  /\ students # <<>>
            /\ stats.total = Len(students)
            /\ ag["<18"] = Count(students, Under18)
            /\ ag["18-22"] = Count(students, From18To22)
            /\ ag["23-25"] = Count(students, From23To25)
            /\ ag[">25"] = Count(students, Over25)
            /\ ag["<18"] + ag["18-22"] + ag["23-25"] + ag[">25"] = stats.total
            /\ cg["<2.0"] = Count(students, Under2)
            /\ cg["2.0-2.9"] = Count(students, From2)
            /\ cg["3.0-3.5"] = Count(students, From3)
            /\ cg[">3.5"] = Count(students, From35)
            /\ cg["<2.0"] + cg["2.0-2.9"] + cg["3.0-3.5"] + cg[">3.5"] = stats.total

\* the statistics of two records, one under 18 and one with a CGPA of 3.5
C10_StatisticsOfTwo ==
    /\ stats.shown
    /\ stats.total = 2
    /\ stats.age_groups["<18"] = 1
    /\ stats.age_groups["18-22"] = 1
    /\ stats.cgpa_groups[">3.5"] = 1
    /\ \E i \in 1..2 : students[i].cgpa = 350

InAgeRange(a) == 5 <= a /\ a <= 120

\* in hundredths: 0.0 <= c <= 4.0
InCgpaRange(c) == 0 <= c /\ c <= 400

\* C11: validate_age accepts exactly the ages from 5 to 120 and validate_cgpa
\* exactly the CGPAs from 0.0 to 4.0: 5, 120, 0.0 and 4.0 pass, 4, 121, -0.01
\* and 4.01 do not.  In add_student an age or CGPA is reported invalid only
\* when it is out of range, and goes on (to the CGPA prompt, into the appended
\* record) only when it is in range; in update_student a new age or CGPA is
\* stored and saved exactly when it is in range, and reported invalid otherwise.
C11_AgeAndCgpaLimits ==
    /\ validate_age(5) /\ validate_age(120) /\ ~validate_age(4) /\ ~validate_age(121)
    /\ validate_cgpa(ParseFloat(<<48, 46, 48>>).val)
    /\ validate_cgpa(ParseFloat(<<52, 46, 48>>).val)
    /\ ~validate_cgpa(ParseFloat(<<45, 48, 46, 48, 49>>).val)
    /\ ~validate_cgpa(ParseFloat(<<52, 46, 48, 49>>).val)
    /\ (pc = "add_age" /\ "invalid_age" \in out) => ~InAgeRange(loc.age)
    /\ pc = "add_cgpa" => InAgeRange(loc.age)
    /\ (pc = "add_cgpa" /\ "invalid_cgpa" \in out) => ~InCgpaRange(loc.cgpa)
    /\ (cmd = "add" /\ Saved) =>
          /\ InAgeRange(loc.age)
          /\ InCgpaRange(loc.cgpa)
          /\ students[Len(students)].age = loc.age
          /\ students[Len(students)].cgpa = loc.cgpa
    /\ (cmd = "update" /\ loc.choice = 2) =>
          /\ Saved <=> InAgeRange(loc.age)
          /\ Saved => students[sel].age = loc.age
          /\ ~Saved => ("invalid_age" \in out /\ students = before)
    /\ (cmd = "update" /\ loc.choice = 3) =>
          /\ Saved <=> InCgpaRange(loc.cgpa)
          /\ Saved => students[sel].cgpa = loc.cgpa
          /\ ~Saved => ("invalid_cgpa" \in out /\ students = before)

\* a student added with the CGPA 0.0 has had the age updated to 120
C11_LimitsAccepted ==
    /\ pc = "done"
    /\ cmd = "update"
    /\ "updated" \in out
    /\ loc.choice = 2
    /\ loc.age = 120
    /\ students[sel].age = 120
    /\ students[sel].cgpa = 0
    /\ before[sel].age = 5
====
